---------------------------- MODULE Spec2Model ----------------------------
(***************************************************************************)
(* The NIM proxy of src/server.js: an express gateway that takes an        *)
(* OpenAI-style chat-completion request, forwards it to one backend and    *)
(* reshapes the answer.  The core is the streaming transcoder, the "data"  *)
(* handler that line-buffers the backend's SSE byte stream and merges the  *)
(* reasoning channel into the content channel.                             *)
(*                                                                         *)
(* Text is a sequence of pieces.  A piece is one byte of a multi-byte      *)
(* character, or a run of ASCII characters that the code never looks       *)
(* inside of (the "data: " prefix, the text "[DONE]", a JSON fragment).    *)
(* A JSON value is a TLA+ record whose DOMAIN is the set of its fields, so *)
(* that a field can be present, absent, added and deleted as in the code.  *)
(***************************************************************************)
EXTENDS Integers, Sequences, FiniteSets, TLC

\* Longest backend stream, in lines.
MaxLines == 2
\* Request slots of the server (concurrent POST handlers).
MaxRequests == 2

RIDs == 1..MaxRequests

(***************************************************************************)
(* Pieces of text                                                          *)
(***************************************************************************)
NL == "\n"
DataPrefix == "data: "
DoneText == "[DONE]"
\* The two bytes of the UTF-8 encoding of U+00E9, the character they decode
\* to, and what a decoder yields for a byte that is no complete character.
LeadByte == "0xC3"
ContByte == "0xA9"
EAcute == "U+00E9"
Replacement == "U+FFFD"
\* The markers the transcoder wraps reasoning text in.
OpenMarker == <<"<think>\n">>
CloseMarker == <<"\n</think>\n\n">>

\* JSON texts the backend sends as one piece each.
TxtReasoning == "{\"choices\":[{\"delta\":{\"reasoning_content\":\"t\"}}]}"
TxtBoth == "{\"choices\":[{\"delta\":{\"reasoning_content\":\"t\",\"content\":\"a\"}}]}"
TxtFinish == "{\"choices\":[{\"delta\":{\"role\":\"assistant\"},\"finish_reason\":\"stop\"}]}"
TxtTwoChoices == "{\"choices\":[{\"delta\":{\"content\":\"a\"}},{\"delta\":{\"reasoning_content\":\"t\"}}]}"
TxtNoDelta == "{\"choices\":[{\"message\":{\"reasoning_content\":\"t\"}}]}"
TxtNull == "null"
TxtJunk == "{oops"
\* A JSON text sent in several pieces: the opening up to the content string,
\* the characters of the string, and the closing.
TxtContentOpen == "{\"choices\":[{\"delta\":{\"content\":\""
TxtContentClose == "\"}}]}"
StringChars == {EAcute, Replacement, DoneText}

\* The values of those texts.
ValReasoning == [choices |-> <<[delta |-> [reasoning_content |-> <<"t">>]]>>]
ValBoth == [choices |-> <<[delta |-> [reasoning_content |-> <<"t">>, content |-> <<"a">>]]>>]
ValFinish == [choices |-> <<[delta |-> [role |-> "assistant"], finish_reason |-> "stop"]>>]
ValTwoChoices == [choices |-> <<[delta |-> [content |-> <<"a">>]], [delta |-> [reasoning_content |-> <<"t">>]]>>]
ValNoDelta == [choices |-> <<[message |-> [reasoning_content |-> <<"t">>]]>>]
ValNull == [jsonNull |-> TRUE]
ValContent(chars) == [choices |-> <<[delta |-> [content |-> chars]]>>]

(***************************************************************************)
(* chunk.toString(): UTF-8 decoding of one chunk on its own.  A lead byte  *)
(* followed by its continuation byte is the character; a lead byte that    *)
(* the chunk does not continue, and a continuation byte that the chunk     *)
(* does not lead, decode to U+FFFD each.                                   *)
(***************************************************************************)
RECURSIVE toString(_)
toString(chunk) ==
    IF chunk = <<>> THEN <<>>
    ELSE IF chunk[1] = LeadByte
         THEN IF Len(chunk) >= 2 /\ chunk[2] = ContByte
              THEN <<EAcute>> \o toString(SubSeq(chunk, 3, Len(chunk)))
              ELSE <<Replacement>> \o toString(Tail(chunk))
         ELSE IF chunk[1] = ContByte
              THEN <<Replacement>> \o toString(Tail(chunk))
              ELSE <<chunk[1]>> \o toString(Tail(chunk))

\* buffer.split("\n"): the segments between the newlines, at least one.
RECURSIVE split(_)
split(text) ==
    IF \A i \in 1..Len(text) : text[i] # NL THEN <<text>>
    ELSE LET i == CHOOSE k \in 1..Len(text) :
                      text[k] = NL /\ \A j \in 1..(k - 1) : text[j] # NL
         IN  <<SubSeq(text, 1, i - 1)>> \o split(SubSeq(text, i + 1, Len(text)))

\* lines.pop() || "": the last segment (an empty one is "" already).
popLast(lines) == lines[Len(lines)]
\* What lines holds after lines.pop().
popRest(lines) == SubSeq(lines, 1, Len(lines) - 1)

startsWithData(line) == Len(line) >= 1 /\ line[1] = DataPrefix
includesDone(line) == \E i \in 1..Len(line) : line[i] = DoneText
\* line.slice(6): the line without its six-character prefix.
slice6(line) == Tail(line)

(***************************************************************************)
(* JSON.parse of a payload: a value, or a SyntaxError.                     *)
(***************************************************************************)
JSONparse(payload) ==
    IF Len(payload) = 1 /\ payload[1] = TxtReasoning THEN [ok |-> TRUE, value |-> ValReasoning]
    ELSE IF Len(payload) = 1 /\ payload[1] = TxtBoth THEN [ok |-> TRUE, value |-> ValBoth]
    ELSE IF Len(payload) = 1 /\ payload[1] = TxtFinish THEN [ok |-> TRUE, value |-> ValFinish]
    ELSE IF Len(payload) = 1 /\ payload[1] = TxtTwoChoices THEN [ok |-> TRUE, value |-> ValTwoChoices]
    ELSE IF Len(payload) = 1 /\ payload[1] = TxtNoDelta THEN [ok |-> TRUE, value |-> ValNoDelta]
    ELSE IF Len(payload) = 1 /\ payload[1] = TxtNull THEN [ok |-> TRUE, value |-> ValNull]
    ELSE IF /\ Len(payload) >= 2
            /\ payload[1] = TxtContentOpen
            /\ payload[Len(payload)] = TxtContentClose
            /\ \A i \in 2..(Len(payload) - 1) : payload[i] \in StringChars
         THEN [ok |-> TRUE, value |-> ValContent(SubSeq(payload, 2, Len(payload) - 1))]
    ELSE [ok |-> FALSE, value |-> ValNull]

(***************************************************************************)
(* data.choices?.[0]?.delta.  Reading a property of null throws a          *)
(* TypeError; a missing choices list, an empty one and a first choice      *)
(* without delta give undefined.                                           *)
(***************************************************************************)
readThrows(data) == data = ValNull
hasDelta(data) ==
    /\ "choices" \in DOMAIN data
    /\ Len(data.choices) >= 1
    /\ "delta" \in DOMAIN data.choices[1]

\* A string field is truthy when it is present and not empty.
truthy(obj, f) == f \in DOMAIN obj /\ obj[f] # <<>>
setField(obj, f, v) == [k \in DOMAIN obj \cup {f} |-> IF k = f THEN v ELSE obj[k]]
deleteField(obj, f) == [k \in DOMAIN obj \ {f} |-> obj[k]]

\* What the SSE events written to the caller are.
DoneEvent == [sse |-> DoneText]
JsonEvent(data) == [sse |-> "json", data |-> data]

(***************************************************************************)
(* The merge of one delta, src/server.js lines 147-177.                    *)
(***************************************************************************)
\* The flag is not consulted.
reasoningShownAlways(delta, show) == truthy(delta, "reasoning_content")
\* SHOW_REASONING && reasoning, line 153.
reasoningShown(delta, show) == show /\ truthy(delta, "reasoning_content")

\* inReasoning after the reasoning branch, lines 153-159.
spanAfterReasoning(delta, inR, show) ==
    IF reasoningShown(delta, show) THEN TRUE ELSE inR

\* Content does not close the span.
spanStaysOpen(delta, inR, show) == spanAfterReasoning(delta, inR, show)
\* inReasoning after the content branch, lines 161-167.
spanAfterContent(delta, inR, show) ==
    IF truthy(delta, "content") /\ spanAfterReasoning(delta, inR, show)
    THEN FALSE
    ELSE spanAfterReasoning(delta, inR, show)

\* output, lines 151-167.
mergedOutput(delta, inR, show) ==
    LET part1 == IF reasoningShown(delta, show)
                 THEN (IF ~inR THEN OpenMarker ELSE <<>>) \o delta.reasoning_content
                 ELSE <<>>
        part2 == IF truthy(delta, "content")
                 THEN (IF spanAfterReasoning(delta, inR, show) THEN CloseMarker ELSE <<>>)
                      \o delta.content
                 ELSE <<>>
    IN  part1 \o part2

\* The content field is set to the output, whatever the output is.
contentAlwaysSet(delta, inR, show) == setField(delta, "content", mergedOutput(delta, inR, show))
\* The delta after lines 170-176.
withContent(delta, inR, show) ==
    LET output == mergedOutput(delta, inR, show)
    IN  IF output # <<>> THEN setField(delta, "content", output)
        ELSE IF ~truthy(delta, "content") /\ ~truthy(delta, "reasoning_content")
             THEN delta
             ELSE setField(delta, "content", <<>>)

\* The reasoning field is left in place.
reasoningKept(delta, inR, show) == withContent(delta, inR, show)
\* The delta as serialized: line 177 deletes the reasoning field.
outgoingDelta(delta, inR, show) ==
    deleteField(withContent(delta, inR, show), "reasoning_content")

(***************************************************************************)
(* One line of the for loop, lines 131-183: the events it writes and the   *)
(* span state it leaves.                                                   *)
(***************************************************************************)
\* The sentinel is not forwarded.
sentinelDropped == <<>>
\* Lines 134-137: what a line that includes "[DONE]" makes the handler write.
sentinelWrites == <<DoneEvent>>
\* Lines 142-145: what an event without a first delta makes the handler write.
passThroughWrites(data) == <<JsonEvent(data)>>
\* Lines 147-179: what an event with a first delta makes the handler write.
mergedWrites(data, inR, show) ==
    <<JsonEvent([data EXCEPT !.choices[1].delta =
                                 outgoingDelta(data.choices[1].delta, inR, show)])>>
\* Lines 139-182: the try block; whatever it throws is caught and dropped.
tryBlock(line, inR, show) ==
    LET parsed == JSONparse(slice6(line))
        data == parsed.value
    IN  IF ~parsed.ok \/ readThrows(data)
        THEN [writes |-> <<>>, inReasoning |-> inR]
        ELSE IF ~hasDelta(data)
        THEN [writes |-> passThroughWrites(data), inReasoning |-> inR]
        ELSE [writes |-> mergedWrites(data, inR, show),
              inReasoning |-> spanAfterContent(data.choices[1].delta, inR, show)]

processLine(line, inR, show) ==
    IF ~startsWithData(line) THEN [writes |-> <<>>, inReasoning |-> inR]
    ELSE IF includesDone(line) THEN [writes |-> sentinelWrites, inReasoning |-> inR]
    ELSE tryBlock(line, inR, show)

RECURSIVE processLines(_, _, _)
processLines(lines, inR, show) ==
    IF lines = <<>> THEN [writes |-> <<>>, inReasoning |-> inR]
    ELSE LET first == processLine(lines[1], inR, show)
             rest == processLines(Tail(lines), first.inReasoning, show)
         IN  [writes |-> first.writes \o rest.writes, inReasoning |-> rest.inReasoning]

\* The "data" handler, lines 126-184, as a function of the closure's state.
onData(buf, inR, chunk, show) ==
    LET lines == split(buf \o toString(chunk))
        done == processLines(popRest(lines), inR, show)
    IN  [buffer |-> popLast(lines), inReasoning |-> done.inReasoning, writes |-> done.writes]

(***************************************************************************)
(* JavaScript values of the request body.  A string is a sequence of       *)
(* pieces; a number is n * 10^e.                                           *)
(***************************************************************************)
Undefined == [t |-> "undefined"]
JsNull == [t |-> "null"]
JsString(pieces) == [t |-> "string", s |-> pieces]
JsNumber(n, e) == [t |-> "number", n |-> n, e |-> e]
JsBool(b) == [t |-> "boolean", b |-> b]
JsArray(items) == [t |-> "array", items |-> items]
JsObject == [t |-> "object"]
JsFunction == [t |-> "function"]

isTruthy(v) ==
    CASE v.t = "undefined" -> FALSE
      [] v.t = "null" -> FALSE
      [] v.t = "string" -> v.s # <<>>
      [] v.t = "number" -> v.n # 0
      [] v.t = "boolean" -> v.b
      [] OTHER -> TRUE
isArray(v) == v.t = "array"
\* a ?? b
nullish(a, b) == IF a.t \in {"undefined", "null"} THEN b ELSE a
\* a || b
orElse(a, b) == IF isTruthy(a) THEN a ELSE b

(***************************************************************************)
(* Model Resolver, lines 22-48 and 88.                                     *)
(***************************************************************************)
MODEL_MAP ==
    [k \in {<<"gpt-3.5", "-turbo">>, <<"gpt-4">>, <<"gpt-4", "-turbo">>, <<"gpt-4", "o">>,
            <<"claude", "-3-", "opus">>, <<"claude", "-3-", "sonnet">>,
            <<"gemini", "-pro">>} |->
        CASE k = <<"gpt-3.5", "-turbo">> -> <<"z-ai/glm5">>
          [] k = <<"gpt-4">> -> <<"moonshotai/kimi-k2.5">>
          [] k = <<"gpt-4", "-turbo">> -> <<"qwen/qwen3.5-397b-a17b">>
          [] k = <<"gpt-4", "o">> -> <<"z-ai/glm5">>
          [] k = <<"claude", "-3-", "opus">> -> <<"moonshotai/kimi-k2.5">>
          [] k = <<"claude", "-3-", "sonnet">> -> <<"qwen/qwen3.5-397b-a17b">>
          [] k = <<"gemini", "-pro">> -> <<"z-ai/glm5">>]
\* Names every object inherits from Object.prototype; MODEL_MAP is a plain
\* object literal, so MODEL_MAP["constructor"] is a function.
InheritedKeys == {<<"constructor">>}

\* MODEL_MAP[model], for a string.
mapLookup(name) ==
    IF name \in DOMAIN MODEL_MAP THEN JsString(MODEL_MAP[name])
    ELSE IF name \in InheritedKeys THEN JsFunction
    ELSE Undefined

lowerPiece(p) ==
    CASE p = "GPT-4" -> "gpt-4"
      [] p = "OPUS" -> "opus"
      [] p = "Claude" -> "claude"
      [] OTHER -> p
toLowerCase(name) == [i \in 1..Len(name) |-> lowerPiece(name[i])]
includes(text, piece) == \E i \in 1..Len(text) : text[i] = piece

resolveFallback(name) ==
    LET lower == toLowerCase(name)
    IN  IF includes(lower, "gpt-4") \/ includes(lower, "opus") \/ includes(lower, "405b")
        THEN <<"meta/llama-3.1-405b-instruct">>
        ELSE IF includes(lower, "claude") \/ includes(lower, "gemini") \/ includes(lower, "70b")
        THEN <<"meta/llama-3.1-70b-instruct">>
        ELSE <<"meta/llama-3.1-8b-instruct">>

\* model = "gpt-4o" in the destructuring: the default replaces undefined only.
modelOf(body) == IF body.model = Undefined THEN JsString(<<"gpt-4", "o">>) ELSE body.model
\* A value that is no string has no own key in MODEL_MAP, and calling
\* toLowerCase on it throws a TypeError.
resolveThrows(model) == model.t # "string"
\* MODEL_MAP[model] || resolveFallback(model), line 88.
nimModelOf(model) == orElse(mapLookup(model.s), JsString(resolveFallback(model.s)))

(***************************************************************************)
(* Validation and Request Builder, lines 79-102.                           *)
(***************************************************************************)
ENABLE_THINKING == TRUE

\* The length of the array is not looked at.
invalidMessagesAnyLength(messages) == ~isTruthy(messages) \/ ~isArray(messages)
\* The condition of line 79.
invalidMessages(messages) ==
    \/ ~isTruthy(messages)
    \/ ~isArray(messages)
    \/ Len(messages.items) = 0

nimBodyOf(body) ==
    LET base == [model |-> nimModelOf(modelOf(body)),
                 messages |-> body.messages,
                 temperature |-> nullish(body.temperature, JsNumber(6, -1)),
                 max_tokens |-> orElse(body.max_tokens, JsNumber(4096, 0)),
                 stream |-> JsBool(isTruthy(body.stream))]
    IN  IF ENABLE_THINKING
        THEN setField(base, "chat_template_kwargs", [thinking |-> TRUE])
        ELSE base

(***************************************************************************)
(* Responses.  res.json(body) sends the status, the body and ends the      *)
(* response; res.write(event) on a response that has ended sends nothing.  *)
(***************************************************************************)
NoBody == [none |-> TRUE]
FreshResponse ==
    [status |-> 200, contentType |-> "none", body |-> NoBody, events |-> <<>>, ended |-> FALSE]
json(response, status, body) ==
    [response EXCEPT !.status = status, !.contentType = "application/json",
                     !.body = body, !.ended = TRUE]
write(response, events) ==
    IF response.ended THEN response
    ELSE [response EXCEPT !.events = response.events \o events]
\* The response is left open.
endForgotten(response) == response
\* res.end(), lines 186-187.
end(response) == [response EXCEPT !.ended = TRUE]

\* The 400 of lines 80-85.
BadRequestBody ==
    [error |-> [message |-> JsString(<<"messages array is required">>),
                type |-> "invalid_request_error"]]
\* The 404 of lines 236-240.
NotFoundBody ==
    [error |-> [message |-> JsString(<<"Not found">>),
                type |-> "invalid_request_error", code |-> 404]]

(***************************************************************************)
(* The catch handler, lines 222-232.  An error is what axios rejects with  *)
(* (response says whether the backend answered at all) or a TypeError      *)
(* thrown inside the try block.                                            *)
(***************************************************************************)
TypeError == [hasResponse |-> FALSE, status |-> 0, bodyMessage |-> Undefined,
              message |-> JsString(<<"TypeError">>)]
\* error.response?.status || 500
catchStatus(error) ==
    IF error.hasResponse /\ error.status # 0 THEN error.status ELSE 500
\* error.response?.data?.error?.message || error.message || "Internal server error"
catchMessage(error) ==
    orElse(IF error.hasResponse THEN error.bodyMessage ELSE Undefined,
           orElse(error.message, JsString(<<"Internal server error">>)))
catchBody(error) ==
    [error |-> [message |-> catchMessage(error), type |-> "proxy_error",
                code |-> catchStatus(error)]]
catch(response, error) == json(response, catchStatus(error), catchBody(error))

(***************************************************************************)
(* Non-streaming mapper, lines 192-221.                                    *)
(***************************************************************************)
\* choice.message?.content || ""
messageContent(choice) ==
    IF "message" \in DOMAIN choice /\ truthy(choice.message, "content")
    THEN choice.message.content
    ELSE <<>>
\* choice.message?.reasoning_content, as a condition
messageHasReasoning(choice) ==
    "message" \in DOMAIN choice /\ truthy(choice.message, "reasoning_content")
mappedContent(choice, show) ==
    IF show /\ messageHasReasoning(choice)
    THEN OpenMarker \o choice.message.reasoning_content \o CloseMarker
         \o messageContent(choice)
    ELSE messageContent(choice)
\* A field whose value is undefined is left out of the serialized object.
copyField(to, from, f) == IF f \in DOMAIN from THEN setField(to, f, from[f]) ELSE to
mapChoice(choice, show) ==
    copyField(copyField([message |-> [role |-> "assistant",
                                      content |-> mappedContent(choice, show)]],
                        choice, "index"),
              choice, "finish_reason")
\* nimResponse.data.choices || []
dataChoices(data) == IF "choices" \in DOMAIN data THEN data.choices ELSE <<>>
ZeroUsage == [prompt_tokens |-> 0, completion_tokens |-> 0, total_tokens |-> 0]
completionBody(model, data, show) ==
    [id |-> "chatcmpl-now",
     object |-> "chat.completion",
     created |-> "now",
     model |-> model,
     choices |-> [i \in 1..Len(dataChoices(data)) |-> mapChoice(dataChoices(data)[i], show)],
     usage |-> IF "usage" \in DOMAIN data THEN data.usage ELSE ZeroUsage]

(***************************************************************************)
(* State                                                                   *)
(***************************************************************************)
VARIABLES
    SHOW_REASONING, \* the reasoning-surfacing flag, fixed when the server starts
    request,        \* request[r]: the inbound request of slot r
    backend,        \* backend[r]: what the backend answers to the call of slot r
    pc,             \* pc[r]: where the handler of slot r is
    nimCalls,       \* nimCalls[r]: the bodies posted to the backend, in order
    res,            \* res[r]: the response to the caller
    buffer,         \* buffer[r]: the line buffer of the stream of slot r
    inReasoning,    \* inReasoning[r]: the span state of the stream of slot r
    delivered,      \* delivered[r]: how many pieces of the backend stream were emitted
    received        \* received[r]: the text of the chunks so far, as the handler decoded them

vars ==
    <<SHOW_REASONING, request, backend, pc, nimCalls, res, buffer, inReasoning, delivered,
      received>>

(***************************************************************************)
(* Inputs: the requests callers send and the answers the backend gives.    *)
(***************************************************************************)
Msg == [role |-> "user", content |-> "hi"]
Body(model, messages, temperature, max_tokens, stream) ==
    [model |-> model, messages |-> messages, temperature |-> temperature,
     max_tokens |-> max_tokens, stream |-> stream]
Req(route, body) == [route |-> route, body |-> body]
EmptyBody == Body(Undefined, Undefined, Undefined, Undefined, Undefined)
NoRequest == Req("none", EmptyBody)
ChatRoute == "POST /v1/chat/completions"

\* The streaming request the transcoder is exercised with.
StreamRequest ==
    Req(ChatRoute, Body(Undefined, JsArray(<<Msg>>), Undefined, Undefined, JsBool(TRUE)))
PlainRequest ==
    Req(ChatRoute, Body(Undefined, JsArray(<<Msg>>), Undefined, Undefined, Undefined))

MessagesValues ==
    {Undefined, JsNull, JsString(<<>>), JsString(<<"hi">>), JsNumber(0, 0), JsObject,
     JsArray(<<>>), JsArray(<<Msg>>), JsArray(<<Msg, Msg>>)}
ModelValues ==
    {Undefined, JsNull, JsNumber(5, 0),
     JsString(<<"gpt-4">>), JsString(<<"gpt-4", "o">>), JsString(<<"claude", "-3-", "sonnet">>),
     JsString(<<"GPT-4">>), JsString(<<"my-", "OPUS">>), JsString(<<"Claude", "-x">>),
     JsString(<<"llama-", "70b">>), JsString(<<"mistral">>), JsString(<<>>),
     JsString(<<"constructor">>)}
TemperatureValues == {Undefined, JsNull, JsNumber(0, 0), JsNumber(1, 0)}
MaxTokensValues == {Undefined, JsNumber(0, 0), JsNumber(100, 0)}
StreamValues == {Undefined, JsBool(FALSE), JsBool(TRUE), JsString(<<"false">>)}

\* Chat requests: every model with the defaults, every messages value, and
\* every combination of the three optional parameters.
ChatRequests ==
    {Req(ChatRoute, Body(m, JsArray(<<Msg>>), Undefined, Undefined, Undefined)) :
        m \in ModelValues}
    \cup {Req(ChatRoute, Body(Undefined, ms, Undefined, Undefined, st)) :
        ms \in MessagesValues, st \in {Undefined, JsBool(TRUE)}}
    \cup {Req(ChatRoute, Body(Undefined, JsArray(<<Msg>>), t, mt, st)) :
        t \in TemperatureValues, mt \in MaxTokensValues, st \in StreamValues}
OtherRequests ==
    {Req("GET /health", EmptyBody), Req("GET /v1/models", EmptyBody),
     Req("GET /nope", EmptyBody)}

\* The lines a backend stream is made of, as bytes, without their newline.
LineDone == <<DataPrefix, DoneText>>
LineReasoning == <<DataPrefix, TxtReasoning>>
LineContent == <<DataPrefix, TxtContentOpen, LeadByte, ContByte, TxtContentClose>>
LineBoth == <<DataPrefix, TxtBoth>>
LineFinish == <<DataPrefix, TxtFinish>>
LineTwoChoices == <<DataPrefix, TxtTwoChoices>>
LineNoDelta == <<DataPrefix, TxtNoDelta>>
LineNull == <<DataPrefix, TxtNull>>
LineJunk == <<DataPrefix, TxtJunk>>
LineJunkDone == <<DataPrefix, TxtJunk, DoneText>>
LineContentDone == <<DataPrefix, TxtContentOpen, DoneText, TxtContentClose>>
LineEmptyContent == <<DataPrefix, TxtContentOpen, TxtContentClose>>
LineBlank == <<>>
Lines ==
    {LineDone, LineReasoning, LineContent, LineBoth, LineFinish, LineTwoChoices,
     LineNoDelta, LineNull, LineJunk, LineJunkDone, LineContentDone, LineEmptyContent,
     LineBlank}

\* The byte streams of at most n newline-terminated lines.
RECURSIVE StreamsOf(_)
StreamsOf(n) ==
    IF n = 0 THEN {<<>>}
    ELSE StreamsOf(n - 1) \cup {s \o l \o <<NL>> : s \in StreamsOf(n - 1), l \in Lines}

\* The lines of an answer that reasons, then speaks, then stops.
CoreLines == {LineReasoning, LineContent, LineDone}
RECURSIVE CoreStreamsOf(_)
CoreStreamsOf(n) ==
    IF n = 0 THEN {<<>>}
    ELSE {s \o l \o <<NL>> : s \in CoreStreamsOf(n - 1), l \in CoreLines}
\* Every stream of at most MaxLines lines, and the longer ones of core lines.
Streams == StreamsOf(MaxLines) \cup CoreStreamsOf(MaxLines + 1)

\* Buffered backend answers.
DataHello ==
    [choices |-> <<[index |-> 0, message |-> [content |-> <<"hello">>],
                    finish_reason |-> "stop"]>>,
     usage |-> [prompt_tokens |-> 1, completion_tokens |-> 1, total_tokens |-> 2]]
DataReasoned ==
    [choices |-> <<[index |-> 0,
                    message |-> [reasoning_content |-> <<"t">>, content |-> <<"a">>],
                    finish_reason |-> "stop"]>>]
DataReasoningOnly ==
    [choices |-> <<[index |-> 0, message |-> [reasoning_content |-> <<"t">>]]>>]
DataNoChoices == [id |-> "x"]

\* What the backend call does: axios resolves (the body is handed over as a
\* stream of bytes when the call asked for one, as parsed JSON otherwise) or
\* rejects with an error.
Answer(bytes, data) ==
    [kind |-> "resolve", bytes |-> bytes, data |-> data, error |-> TypeError]
Failure(error) ==
    [kind |-> "reject", bytes |-> <<>>, data |-> ValNull, error |-> error]
NoBackend == Failure(TypeError)
AxiosError(hasResponse, status, bodyMessage, message) ==
    [hasResponse |-> hasResponse, status |-> status, bodyMessage |-> bodyMessage,
     message |-> message]
Failures ==
    {AxiosError(TRUE, 429, JsString(<<"rate limited">>), JsString(<<"Request failed">>)),
     AxiosError(TRUE, 503, Undefined, JsString(<<"Request failed">>)),
     AxiosError(FALSE, 0, Undefined, JsString(<<"timeout of 120000ms exceeded">>)),
     AxiosError(FALSE, 0, Undefined, JsString(<<>>))}
Answers ==
    {Answer(<<>>, d) : d \in {DataHello, DataReasoned, DataReasoningOnly, DataNoChoices, ValNull}}

Scenario(q, b) == [request |-> q, backend |-> b]
\* Every path through the gateway once.
GatewayTour ==
    {Scenario(q, NoBackend) : q \in OtherRequests}
    \cup {Scenario(Req(ChatRoute, EmptyBody), NoBackend),
          Scenario(Req(ChatRoute, Body(JsNull, JsArray(<<Msg>>), Undefined, Undefined, Undefined)),
                   NoBackend)}
    \cup {Scenario(PlainRequest, b) : b \in Answers}
    \cup {Scenario(PlainRequest, Failure(e)) : e \in Failures}
\* The transcoder on every stream.
StreamScenarios ==
    {Scenario(StreamRequest, Answer(s, ValNull)) : s \in Streams}
    \cup GatewayTour
\* The gateway on every request.
GatewayScenarios ==
    {Scenario(q, b) : q \in ChatRequests,
                      b \in Answers \cup {Failure(e) : e \in Failures}
                            \cup {Answer(s, ValNull) : s \in StreamsOf(1)}}
    \cup GatewayTour

(***************************************************************************)
(* Initial states: the server is up, slot 1 holds a request that has not   *)
(* been dispatched, and the answer the backend will give is fixed.         *)
(***************************************************************************)
InitOf(scenarios) ==
    /\ SHOW_REASONING \in BOOLEAN
    /\ \E sc \in scenarios :
          /\ request = [r \in RIDs |-> IF r = 1 THEN sc.request ELSE NoRequest]
          /\ backend = [r \in RIDs |-> IF r = 1 THEN sc.backend ELSE NoBackend]
    /\ pc = [r \in RIDs |-> "pending"]
    /\ nimCalls = [r \in RIDs |-> <<>>]
    /\ res = [r \in RIDs |-> FreshResponse]
    /\ buffer = [r \in RIDs |-> <<>>]
    /\ inReasoning = [r \in RIDs |-> FALSE]
    /\ delivered = [r \in RIDs |-> 0]
    /\ received = [r \in RIDs |-> <<>>]

Init == InitOf(StreamScenarios)
InitGateway == InitOf(GatewayScenarios)

\* Several requests in flight: every slot holds a streaming request, one that
\* reasons and goes on (its span stays open) or one that reasons and speaks in
\* one event and stops; slot 1 may hold any request of the tour instead.
StreamOpenSpan == LineReasoning \o <<NL>> \o LineFinish \o <<NL>>
StreamOneShot == LineBoth \o <<NL>> \o LineDone \o <<NL>>
ConcurrentStreams ==
    {Scenario(StreamRequest, Answer(s, ValNull)) : s \in {StreamOpenSpan, StreamOneShot}}
InitConcurrent ==
    /\ SHOW_REASONING \in BOOLEAN
    /\ \E first \in ConcurrentStreams \cup GatewayTour :
       \E others \in [RIDs \ {1} -> ConcurrentStreams] :
          /\ request = [r \in RIDs |-> IF r = 1 THEN first.request ELSE others[r].request]
          /\ backend = [r \in RIDs |-> IF r = 1 THEN first.backend ELSE others[r].backend]
    /\ pc = [r \in RIDs |-> "pending"]
    /\ nimCalls = [r \in RIDs |-> <<>>]
    /\ res = [r \in RIDs |-> FreshResponse]
    /\ buffer = [r \in RIDs |-> <<>>]
    /\ inReasoning = [r \in RIDs |-> FALSE]
    /\ delivered = [r \in RIDs |-> 0]
    /\ received = [r \in RIDs |-> <<>>]

(***************************************************************************)
(* Actions                                                                 *)
(***************************************************************************)
streamVars == <<buffer, inReasoning, delivered, received>>

\* GET /health, lines 53-55.
Health(r) ==
    /\ pc[r] = "pending" /\ request[r].route = "GET /health"
    /\ res' = [res EXCEPT ![r] = json(@, 200, [status |-> "ok", service |-> "nim-proxy"])]
    /\ pc' = [pc EXCEPT ![r] = "done"]
    /\ UNCHANGED <<SHOW_REASONING, request, backend, nimCalls, streamVars>>

\* GET /v1/models, lines 58-66.
modelList ==
    [object |-> "list",
     data |-> {[id |-> k, object |-> "model", created |-> "now", owned_by |-> "nim-proxy"] :
                  k \in DOMAIN MODEL_MAP}]
Models(r) ==
    /\ pc[r] = "pending" /\ request[r].route = "GET /v1/models"
    /\ res' = [res EXCEPT ![r] = json(@, 200, modelList)]
    /\ pc' = [pc EXCEPT ![r] = "done"]
    /\ UNCHANGED <<SHOW_REASONING, request, backend, nimCalls, streamVars>>

\* Everything else, lines 236-240.
NotFound(r) ==
    /\ pc[r] = "pending"
    /\ request[r].route \notin {"none", "GET /health", "GET /v1/models", ChatRoute}
    /\ res' = [res EXCEPT ![r] = json(@, 404, NotFoundBody)]
    /\ pc' = [pc EXCEPT ![r] = "done"]
    /\ UNCHANGED <<SHOW_REASONING, request, backend, nimCalls, streamVars>>

\* POST /v1/chat/completions up to the await, lines 69-115.
PostChat(r) ==
    /\ pc[r] = "pending" /\ request[r].route = ChatRoute
    /\ LET body == request[r].body
       IN  IF invalidMessages(body.messages)
           THEN /\ res' = [res EXCEPT ![r] = json(@, 400, BadRequestBody)]
                /\ pc' = [pc EXCEPT ![r] = "done"]
                /\ UNCHANGED nimCalls
           ELSE IF resolveThrows(modelOf(body))
           THEN /\ res' = [res EXCEPT ![r] = catch(@, TypeError)]
                /\ pc' = [pc EXCEPT ![r] = "done"]
                /\ UNCHANGED nimCalls
           ELSE /\ nimCalls' = [nimCalls EXCEPT ![r] = Append(@, nimBodyOf(body))]
                /\ pc' = [pc EXCEPT ![r] = "awaiting"]
                /\ UNCHANGED res
    /\ UNCHANGED <<SHOW_REASONING, request, backend, streamVars>>

\* The error axios rejects with.  A call made with responseType "stream"
\* (line 112) hands over the body of a failed response as an unread stream,
\* which has no error.message to read.
rejection(error, stream) ==
    IF isTruthy(stream) THEN [error EXCEPT !.bodyMessage = Undefined] ELSE error

\* The handler starts over.
retried == "pending"
\* Where the handler is after the catch block: it has answered and returns,
\* lines 229-233; nothing leads back to the call.
afterCatch == "done"

\* axios.post rejects: the catch handler, lines 222-232.
AxiosReject(r) ==
    /\ pc[r] = "awaiting" /\ backend[r].kind = "reject"
    /\ res' = [res EXCEPT ![r] = catch(@, rejection(backend[r].error, request[r].body.stream))]
    /\ pc' = [pc EXCEPT ![r] = afterCatch]
    /\ UNCHANGED <<SHOW_REASONING, request, backend, nimCalls, streamVars>>

\* Every handler reads and writes the variables of the first stream.
closureShared(r) == 1
\* The closure the handlers of request r read and write: buffer and
\* inReasoning are declared with let inside the request handler, lines
\* 123-124, so every invocation has its own pair.
closureOf(r) == r

\* axios.post resolves and stream is truthy, lines 118-189.
OpenStream(r) ==
    /\ pc[r] = "awaiting" /\ backend[r].kind = "resolve"
    /\ isTruthy(request[r].body.stream)
    /\ res' = [res EXCEPT ![r].contentType = "text/event-stream"]
    /\ buffer' = [buffer EXCEPT ![closureOf(r)] = <<>>]
    /\ inReasoning' = [inReasoning EXCEPT ![closureOf(r)] = FALSE]
    /\ pc' = [pc EXCEPT ![r] = "streaming"]
    /\ UNCHANGED <<SHOW_REASONING, request, backend, nimCalls, delivered, received>>

\* axios.post resolves and stream is falsy, lines 192-221; reading choices
\* of a null body throws into the catch handler.
Complete(r) ==
    /\ pc[r] = "awaiting" /\ backend[r].kind = "resolve"
    /\ ~isTruthy(request[r].body.stream)
    /\ res' = [res EXCEPT ![r] =
                 IF backend[r].data = ValNull
                 THEN catch(@, TypeError)
                 ELSE json(@, 200, completionBody(modelOf(request[r].body),
                                                  backend[r].data, SHOW_REASONING))]
    /\ pc' = [pc EXCEPT ![r] = "done"]
    /\ UNCHANGED <<SHOW_REASONING, request, backend, nimCalls, streamVars>>

\* nimResponse.data emits "data" with the next n bytes, lines 126-184.
OnData(r, n) ==
    /\ pc[r] = "streaming"
    /\ delivered[r] + n <= Len(backend[r].bytes)
    /\ LET chunk == SubSeq(backend[r].bytes, delivered[r] + 1, delivered[r] + n)
           c == closureOf(r)
           after == onData(buffer[c], inReasoning[c], chunk, SHOW_REASONING)
       IN  /\ buffer' = [buffer EXCEPT ![c] = after.buffer]
           /\ inReasoning' = [inReasoning EXCEPT ![c] = after.inReasoning]
           /\ res' = [res EXCEPT ![r] = write(@, after.writes)]
    /\ delivered' = [delivered EXCEPT ![r] = @ + n]
    /\ received' = [received EXCEPT ![r] =
                      @ \o toString(SubSeq(backend[r].bytes, delivered[r] + 1, delivered[r] + n))]
    /\ UNCHANGED <<SHOW_REASONING, request, backend, pc, nimCalls>>

\* nimResponse.data emits "end", line 186: every byte was delivered.
OnEnd(r) ==
    /\ pc[r] = "streaming"
    /\ delivered[r] = Len(backend[r].bytes)
    /\ res' = [res EXCEPT ![r] = end(@)]
    /\ pc' = [pc EXCEPT ![r] = "ended"]
    /\ UNCHANGED <<SHOW_REASONING, request, backend, nimCalls, streamVars>>

\* nimResponse.data emits "error", line 187: the connection broke, at any
\* point of the stream.
OnError(r) ==
    /\ pc[r] = "streaming"
    /\ res' = [res EXCEPT ![r] = end(@)]
    /\ pc' = [pc EXCEPT ![r] = "errored"]
    /\ UNCHANGED <<SHOW_REASONING, request, backend, nimCalls, streamVars>>

Next ==
    \E r \in RIDs :
        \/ Health(r)
        \/ Models(r)
        \/ NotFound(r)
        \/ PostChat(r)
        \/ AxiosReject(r)
        \/ OpenStream(r)
        \/ Complete(r)
        \/ \E n \in 1..Len(backend[r].bytes) : OnData(r, n)
        \/ OnEnd(r)
        \/ OnError(r)

Spec == Init /\ [][Next]_vars
SpecGateway == InitGateway /\ [][Next]_vars
SpecConcurrent == InitConcurrent /\ [][Next]_vars

(***************************************************************************)
(* Vocabulary of the properties                                            *)
(***************************************************************************)
IsStream(r) == pc[r] \in {"streaming", "ended", "errored"}
IsClosedStream(r) == pc[r] \in {"ended", "errored"}
Events(r) == res[r].events
\* The bytes the backend stream of slot r has emitted so far.
DeliveredBytes(r) == SubSeq(backend[r].bytes, 1, delivered[r])
\* The newline-terminated lines the handler of slot r has received so far.
CompleteLines(r) == popRest(split(received[r]))
IsDataLine(line) == Len(line) >= 1 /\ line[1] = DataPrefix
\* The content of the first choice's delta of a written event.
EventContent(ev) ==
    IF ev.sse = "json" /\ hasDelta(ev.data) /\ "content" \in DOMAIN ev.data.choices[1].delta
    THEN ev.data.choices[1].delta.content
    ELSE <<>>
RECURSIVE FlatContent(_)
FlatContent(events) ==
    IF events = <<>> THEN <<>> ELSE EventContent(events[1]) \o FlatContent(Tail(events))
ReasoningPieces == {"t"}

\* C1 -- chunk-boundary independence: however the bytes delivered so far were
\* cut into chunks, the events written, inReasoning and the buffer are those
\* of delivering the same bytes as one single chunk.
C1_ChunkBoundaryIndependence ==
    \A r \in RIDs :
        IsStream(r) =>
            LET whole == onData(<<>>, FALSE, DeliveredBytes(r), SHOW_REASONING)
            IN  /\ Events(r) = whole.writes
                /\ inReasoning[r] = whole.inReasoning
                /\ buffer[r] = whole.buffer

\* Pieces in which every opening marker is followed by its closing marker
\* before any ordinary content and before the end, and markers alternate.
RECURSIVE Bracketed(_, _)
Bracketed(pieces, inside) ==
    IF pieces = <<>> THEN ~inside
    ELSE IF pieces[1] = OpenMarker[1] THEN ~inside /\ Bracketed(Tail(pieces), TRUE)
    ELSE IF pieces[1] = CloseMarker[1] THEN inside /\ Bracketed(Tail(pieces), FALSE)
    ELSE IF pieces[1] \in ReasoningPieces THEN Bracketed(Tail(pieces), inside)
    ELSE ~inside /\ Bracketed(Tail(pieces), FALSE)

\* C2 -- reasoning-span invariant, surfacing enabled: in the output of a
\* stream that has ended or failed, opening and closing markers alternate
\* starting with an opening one, and every opening marker has its closing
\* marker no later than the next ordinary content or the end of the stream.
C2_MarkersBalanced ==
    \A r \in RIDs :
        (SHOW_REASONING /\ IsClosedStream(r)) => Bracketed(FlatContent(Events(r)), FALSE)

\* C3 as stated -- whenever the outbound stream gets closed, the last event
\* written before the close is "data: [DONE]".
C3_ClosedAfterDone ==
    \A r \in RIDs :
        IsClosedStream(r) => (Events(r) # <<>> /\ Events(r)[Len(Events(r))] = DoneEvent)

\* C3 as amended -- when the last newline-terminated data line the backend
\* sent before the close is the sentinel line, the last event written before
\* the close is "data: [DONE]".
C3_DoneForwardedLast ==
    \A r \in RIDs :
        LET dataLines == SelectSeq(CompleteLines(r), IsDataLine)
        IN  (IsClosedStream(r) /\ dataLines # <<>> /\ dataLines[Len(dataLines)] = LineDone)
                => (Events(r) # <<>> /\ Events(r)[Len(Events(r))] = DoneEvent)

\* A stream that reasoned, spoke and stopped, then ended: three events, the
\* sentinel last.
C3_Witness ==
    /\ pc[1] = "ended"
    /\ backend[1].bytes = LineReasoning \o <<NL>> \o LineContent \o <<NL>> \o LineDone \o <<NL>>
    /\ Len(Events(1)) = 3
    /\ Events(1)[3] = DoneEvent

\* A line the handler takes for the sentinel: it contains the text "[DONE]".
ContainsDone(line) == \E i \in 1..Len(line) : line[i] = DoneText
\* A data line that is not the sentinel line and whose payload is no JSON.
Malformed(line) == IsDataLine(line) /\ line # LineDone /\ ~JSONparse(Tail(line)).ok
WellFormed(line) == ~Malformed(line)

\* C4 -- malformed-line robustness: a data line whose payload is not
\* parseable JSON writes nothing, changes neither inReasoning nor the buffer
\* and does not close the stream; what is written and the span state are
\* those of the same lines with the malformed ones taken out.
C4_MalformedLinesVanish ==
    \A r \in RIDs :
        IsStream(r) =>
            LET clean == processLines(SelectSeq(CompleteLines(r), WellFormed), FALSE,
                                      SHOW_REASONING)
            IN  /\ Events(r) = clean.writes
                /\ inReasoning[r] = clean.inReasoning
                /\ buffer[r] = popLast(split(received[r]))
                /\ (pc[r] = "streaming" => ~res[r].ended)

\* A data line that is the sentinel (as the handler tests it) or parses.
Forwardable(line) ==
    IsDataLine(line) /\ (ContainsDone(line) \/ JSONparse(Tail(line)).ok)

\* C5 -- ordering and immediacy: after every chunk, the events written are
\* one per newline-terminated data line received so far that is the sentinel
\* or parses, in the order of those lines (a sentinel event where the line
\* is a sentinel, a JSON event where it is not); nothing is held back but
\* the unterminated fragment in the buffer.
C5_OneEventPerLineInOrder ==
    \A r \in RIDs :
        IsStream(r) =>
            LET lines == SelectSeq(CompleteLines(r), Forwardable)
            IN  /\ Len(Events(r)) = Len(lines)
                /\ \A i \in 1..Len(lines) :
                      (Events(r)[i] = DoneEvent) <=> ContainsDone(lines[i])

IsMarker(piece) == piece = OpenMarker[1] \/ piece = CloseMarker[1]
NoMarker(text) == \A i \in 1..Len(text) : ~IsMarker(text[i])
\* No content of any choice of a written event holds a marker.
EventHasNoMarker(ev) ==
    (ev.sse = "json" /\ "choices" \in DOMAIN ev.data) =>
        \A i \in 1..Len(ev.data.choices) :
            ("delta" \in DOMAIN ev.data.choices[i]
             /\ "content" \in DOMAIN ev.data.choices[i].delta)
                => NoMarker(ev.data.choices[i].delta.content)
\* A line that makes the handler write an event.
Producing(line) ==
    IsDataLine(line)
    /\ (ContainsDone(line) \/ (JSONparse(Tail(line)).ok /\ JSONparse(Tail(line)).value # ValNull))
\* The content of the written delta is the content received, or empty, or
\* as absent as it was.
ContentKept(line, ev) ==
    (~ContainsDone(line) /\ hasDelta(JSONparse(Tail(line)).value)) =>
        LET din == JSONparse(Tail(line)).value.choices[1].delta
            dout == ev.data.choices[1].delta
        IN  IF "content" \in DOMAIN dout
            THEN dout.content = <<>> \/ ("content" \in DOMAIN din /\ dout.content = din.content)
            ELSE "content" \notin DOMAIN din

\* C6 -- surfacing disabled: no written event holds a marker, inReasoning is
\* false in every state, the content of every forwarded delta is the
\* content received, the empty string or untouched, and the non-streaming
\* mapper adds no marker either.
C6_NoMarkersWhenDisabled ==
    ~SHOW_REASONING =>
        \A r \in RIDs :
            /\ inReasoning[r] = FALSE
            /\ \A i \in 1..Len(Events(r)) : EventHasNoMarker(Events(r)[i])
            /\ IsStream(r) =>
                  LET lines == SelectSeq(CompleteLines(r), Producing)
                  IN  /\ Len(Events(r)) = Len(lines)
                      /\ \A i \in 1..Len(lines) : ContentKept(lines[i], Events(r)[i])
            /\ (pc[r] = "done" /\ "choices" \in DOMAIN res[r].body) =>
                  \A i \in 1..Len(res[r].body.choices) :
                      NoMarker(res[r].body.choices[i].message.content)

\* Surfacing is off and a stream of a reasoning line and a content line has
\* ended: two events were written, the first with an empty content.
C6_Witness ==
    /\ ~SHOW_REASONING
    /\ pc[1] = "ended"
    /\ backend[1].bytes = LineReasoning \o <<NL>> \o LineContent \o <<NL>>
    /\ Len(Events(1)) = 2
    /\ EventContent(Events(1)[1]) = <<>>
    /\ EventContent(Events(1)[2]) # <<>>

\* An event none of whose choices carries the reasoning field, in a delta or
\* in a message.
NoReasoningField(ev) ==
    (ev.sse = "json" /\ "choices" \in DOMAIN ev.data) =>
        \A i \in 1..Len(ev.data.choices) :
            LET c == ev.data.choices[i]
            IN  /\ "delta" \in DOMAIN c => "reasoning_content" \notin DOMAIN c.delta
                /\ "message" \in DOMAIN c => "reasoning_content" \notin DOMAIN c.message

\* C7 as stated -- no written event carries a reasoning_content field,
\* whatever the flag and whatever the shape of the backend event.
C7_NoReasoningFieldAnywhere ==
    \A r \in RIDs : \A i \in 1..Len(Events(r)) : NoReasoningField(Events(r)[i])

\* C7 as amended -- no written event carries a reasoning_content field in
\* the delta of its first choice, whatever the flag.
C7_FirstDeltaStripped ==
    \A r \in RIDs : \A i \in 1..Len(Events(r)) :
        LET ev == Events(r)[i]
        IN  (ev.sse = "json" /\ hasDelta(ev.data))
                => "reasoning_content" \notin DOMAIN ev.data.choices[1].delta

\* A line whose delta holds both fields was received and its event written.
C7_Witness ==
    /\ pc[1] = "ended"
    /\ backend[1].bytes = LineBoth \o <<NL>>
    /\ Len(Events(1)) = 1
    /\ hasDelta(Events(1)[1].data)

\* C8 -- close on source end or error: once the backend stream has signalled
\* end or error the response is ended and carries no body (no error
\* envelope); the step of the error writes no event; and no step changes a
\* response that is ended.
C8_ClosedOnEndOrError ==
    /\ [](\A r \in RIDs : IsClosedStream(r) => (res[r].ended /\ res[r].body = NoBody))
    /\ [][\A r \in RIDs :
            /\ (pc[r] = "streaming" /\ pc'[r] = "errored") => res'[r].events = res[r].events
            /\ res[r].ended => res'[r] = res[r]]_vars

\* The backend stream failed after an event was written and before all of
\* it was delivered.
C8_Witness ==
    /\ pc[1] = "errored"
    /\ res[1].ended
    /\ Events(1) # <<>>
    /\ delivered[1] < Len(backend[1].bytes)

\* A messages value that is missing, no array, or an empty array.
BadMessages(messages) ==
    messages = Undefined \/ messages.t # "array" \/ messages = JsArray(<<>>)

\* C9 -- input validation: a chat request whose messages field is missing,
\* not an array or an empty array never reaches the backend (no call is
\* posted for it, in any state) and is answered, in the handler's first
\* step, with status 400 and type invalid_request_error.
C9_InvalidMessagesRejected ==
    \A r \in RIDs :
        (request[r].route = ChatRoute /\ BadMessages(request[r].body.messages)) =>
            /\ nimCalls[r] = <<>>
            /\ pc[r] \in {"pending", "done"}
            /\ pc[r] = "done" =>
                  /\ res[r].status = 400
                  /\ res[r].ended
                  /\ "error" \in DOMAIN res[r].body
                  /\ res[r].body.error.type = "invalid_request_error"

\* A request with an empty messages array was answered with 400.
C9_Witness ==
    /\ request[1].route = ChatRoute
    /\ request[1].body.messages = JsArray(<<>>)
    /\ pc[1] = "done"
    /\ res[1].status = 400
    /\ nimCalls[1] = <<>>

\* C10 -- uniform error envelope: every error response (status 400 and
\* above) has a body {error: {message, type, code}} with message a string,
\* type invalid_request_error or proxy_error, and code the HTTP status.
C10_UniformErrorEnvelope ==
    \A r \in RIDs :
        (pc[r] = "done" /\ res[r].status >= 400) =>
            /\ "error" \in DOMAIN res[r].body
            /\ DOMAIN res[r].body.error = {"message", "type", "code"}
            /\ res[r].body.error.message.t = "string"
            /\ res[r].body.error.type \in {"invalid_request_error", "proxy_error"}
            /\ res[r].body.error.code = res[r].status

\* The string the handler falls back to when an error carries no message.
GenericMessage == JsString(<<"Internal server error">>)
\* The backend call of slot r was made and failed.
CallFailed(r) ==
    request[r].route = ChatRoute /\ nimCalls[r] # <<>> /\ backend[r].kind = "reject"

\* C11 -- backend failure mapping: a chat request whose backend call failed
\* is answered with the backend's status when the backend answered and 500
\* otherwise, type proxy_error, code equal to the status, and as message the
\* message of the backend's error body when it sent one, else the transport
\* error's message, else the generic fallback; no completion and no stream
\* event is sent.
C11_BackendFailureMapped ==
    \A r \in RIDs :
        (CallFailed(r) /\ pc[r] = "done") =>
            LET e == backend[r].error
            IN  /\ res[r].status = (IF e.hasResponse THEN e.status ELSE 500)
                /\ res[r].ended
                /\ DOMAIN res[r].body = {"error"}
                /\ res[r].body.error.type = "proxy_error"
                /\ res[r].body.error.code = res[r].status
                /\ res[r].body.error.message =
                      (IF e.hasResponse /\ isTruthy(e.bodyMessage) THEN e.bodyMessage
                       ELSE IF isTruthy(e.message) THEN e.message
                       ELSE GenericMessage)
                /\ Events(r) = <<>>

\* What the stream of slot r writes and holds when it runs alone: the lines
\* of the text its own handler received, processed from a fresh closure.
RunAlone(r) ==
    LET lines == split(received[r])
        done == processLines(popRest(lines), FALSE, SHOW_REASONING)
    IN  [buffer |-> popLast(lines), inReasoning |-> done.inReasoning, writes |-> done.writes]
\* Slot r takes no part in the step.
Idle(r) == pc'[r] = pc[r] /\ delivered'[r] = delivered[r]

\* C12 -- per-stream state isolation: with several streaming requests in
\* flight and their chunks processed in any interleaving, the events, the
\* line buffer and inReasoning of each stream are those of that stream run
\* alone, and a step of one request's handlers leaves the buffer, the flag
\* and the response of every other request as they were.
C12_StreamsIsolated ==
    /\ [](\A r \in RIDs :
            IsStream(r) =>
                /\ Events(r) = RunAlone(r).writes
                /\ buffer[r] = RunAlone(r).buffer
                /\ inReasoning[r] = RunAlone(r).inReasoning)
    /\ [][\A r \in RIDs :
            Idle(r) => /\ buffer'[r] = buffer[r]
                       /\ inReasoning'[r] = inReasoning[r]
                       /\ res'[r] = res[r]]_vars

\* Two streams are under way at once: the first is inside an open reasoning
\* span, the second has opened and closed its own span in one event.
C12_Witness ==
    /\ SHOW_REASONING
    /\ pc[1] = "streaming" /\ pc[2] = "streaming"
    /\ backend[1].bytes = StreamOpenSpan /\ backend[2].bytes = StreamOneShot
    /\ inReasoning[1] /\ ~inReasoning[2]
    /\ Len(Events(1)) = 1 /\ Len(Events(2)) = 1
    /\ EventContent(Events(2)[1]) = OpenMarker \o <<"t">> \o CloseMarker \o <<"a">>

\* C13 -- single-attempt proxy: for every inbound request the backend is
\* called at most once, whatever became of the call (answer, non-2xx, network
\* error, timeout, stream error after the headers); a request that has not
\* reached the call, or is no chat request, has called nothing.
C13_SingleAttempt ==
    \A r \in RIDs :
        /\ Len(nimCalls[r]) <= 1
        /\ (pc[r] = "pending" \/ request[r].route # ChatRoute) => nimCalls[r] = <<>>
        /\ pc[r] \in {"awaiting", "streaming", "ended", "errored"} => Len(nimCalls[r]) = 1

\* The backend call failed with a 503 and the request was answered: one
\* call was made.
C13_Witness ==
    /\ CallFailed(1)
    /\ backend[1].error.status = 503
    /\ pc[1] = "done"
    /\ res[1].status = 503
    /\ Len(nimCalls[1]) = 1

\* A parameter of the backend request is the caller's value when the caller
\* supplied a value of the parameter's type, and the default when the caller
\* left the parameter out.
CallerOrDefault(sent, given, type, default) ==
    /\ given.t = type => sent = given
    /\ given = Undefined => sent = default

\* C14 -- Request Builder defaults: the backend request of a request with a
\* non-empty messages array holds temperature, max_tokens and stream, each
\* the caller's value when the caller supplied one and the default (0.6,
\* 4096, false) when the caller did not, and holds the caller's messages
\* unchanged.
C14_BuilderDefaults ==
    \A r \in RIDs :
        nimCalls[r] # <<>> =>
            LET body == request[r].body
                sent == nimCalls[r][1]
            IN  /\ {"temperature", "max_tokens", "stream", "messages"} \subseteq DOMAIN sent
                /\ sent.messages = body.messages
                /\ CallerOrDefault(sent.temperature, body.temperature, "number", JsNumber(6, -1))
                /\ CallerOrDefault(sent.max_tokens, body.max_tokens, "number", JsNumber(4096, 0))
                /\ CallerOrDefault(sent.stream, body.stream, "boolean", JsBool(FALSE))

\* A chat request that passes validation and names its model with a string
\* (the default name when it names none).
NamesModel(r) ==
    /\ request[r].route = ChatRoute
    /\ ~BadMessages(request[r].body.messages)
    /\ modelOf(request[r].body).t = "string"
\* The identifier the resolver is specified to yield: the table entry of a
\* name that is a key of the table, the keyword rules' answer otherwise.
TableThenKeywords(name) ==
    IF name \in DOMAIN MODEL_MAP THEN MODEL_MAP[name] ELSE resolveFallback(name)

\* C15 -- the Model Resolver is total and deterministic: for every model
\* name the handler goes on to the backend call (the resolution does not
\* fail), and the model of the backend request is an identifier, a function
\* of the name alone: the table entry when the name is a key of the table,
\* whatever the keyword rules say, and the answer of the ordered keyword
\* rules otherwise.
C15_ResolverTotal ==
    \A r \in RIDs :
        (NamesModel(r) /\ pc[r] # "pending") =>
            /\ nimCalls[r] # <<>>
            /\ nimCalls[r][1].model = JsString(TableThenKeywords(modelOf(request[r].body).s))

\* The written text holds an opening marker that no closing marker follows.
RECURSIVE SpanOpen(_)
SpanOpen(pieces) ==
    IF pieces = <<>> THEN FALSE
    ELSE LET last == pieces[Len(pieces)]
         IN  IF last = OpenMarker[1] THEN TRUE
             ELSE IF last = CloseMarker[1] THEN FALSE
             ELSE SpanOpen(SubSeq(pieces, 1, Len(pieces) - 1))
\* Whether a span is open after the first n events of slot r.
OpenAfter(r, n) == SpanOpen(FlatContent(SubSeq(Events(r), 1, n)))
\* The first delta the backend sent on a line, and an empty one for a line
\* that has none.
DeltaIn(line) ==
    IF IsDataLine(line) /\ ~ContainsDone(line) /\ JSONparse(Tail(line)).ok /\ hasDelta(JSONparse(Tail(line)).value)
    THEN JSONparse(Tail(line)).value.choices[1].delta
    ELSE [role |-> "assistant"]
\* The text ends with the closing marker followed by the given content.
EndsClosedBy(text, content) ==
    /\ Len(text) >= Len(content) + 1
    /\ text[Len(text) - Len(content)] = CloseMarker[1]
    /\ SubSeq(text, Len(text) - Len(content) + 1, Len(text)) = content

\* C16 -- reasoning-span state coherence: inReasoning is false at stream
\* start and, after any processed lines, true exactly when the written output
\* holds an opening marker not yet followed by a closing marker; an event
\* opens a span only if surfacing is enabled and its line carries a
\* non-empty reasoning fragment, and closes one only if its line carries a
\* non-empty ordinary-content fragment, which the closing marker precedes in
\* the same event.
C16_SpanStateCoherent ==
    \A r \in RIDs :
        /\ pc[r] \in {"pending", "awaiting"} => inReasoning[r] = FALSE
        /\ IsStream(r) =>
              LET lines == SelectSeq(CompleteLines(r), Producing)
              IN  /\ inReasoning[r] = OpenAfter(r, Len(Events(r)))
                  /\ Len(Events(r)) = Len(lines)
                  /\ \A i \in 1..Len(lines) :
                        /\ (~OpenAfter(r, i - 1) /\ OpenAfter(r, i)) =>
                              (SHOW_REASONING /\ truthy(DeltaIn(lines[i]), "reasoning_content"))
                        /\ (OpenAfter(r, i - 1) /\ ~OpenAfter(r, i)) =>
                              /\ truthy(DeltaIn(lines[i]), "content")
                              /\ EndsClosedBy(EventContent(Events(r)[i]),
                                              DeltaIn(lines[i]).content)

\* Surfacing is on and a stream of a reasoning line, a content line and the
\* sentinel has ended: the first event opened the span, the second closed it
\* ahead of its content, the third is the sentinel.
C16_Witness ==
    /\ SHOW_REASONING
    /\ pc[1] = "ended"
    /\ backend[1].bytes = LineReasoning \o <<NL>> \o LineContent \o <<NL>> \o LineDone \o <<NL>>
    /\ Len(Events(1)) = 3
    /\ EventContent(Events(1)[1]) = OpenMarker \o <<"t">>
    /\ EventContent(Events(1)[2])[1] = CloseMarker[1]
    /\ Events(1)[3] = DoneEvent
    /\ ~inReasoning[1]

\* The line carries an event with a first delta.
HasDeltaIn(line) ==
    IsDataLine(line) /\ ~ContainsDone(line) /\ JSONparse(Tail(line)).ok /\ hasDelta(JSONparse(Tail(line)).value)
\* The delta holds neither an ordinary-content nor a reasoning fragment.
NoFragment(delta) == ~truthy(delta, "content") /\ ~truthy(delta, "reasoning_content")

IsSentinelLine(line) == line = LineDone
IsDoneEvent(ev) == ev = DoneEvent

\* C18 -- sentinel fidelity: "data: [DONE]" is written only for input lines
\* that are the sentinel line, so the output holds as many sentinels as the
\* input holds sentinel lines; a well-formed event line whose payload
\* contains the text "[DONE]" is forwarded as its own merged event.
C18_SentinelFidelity ==
    \A r \in RIDs :
        IsStream(r) =>
            /\ Len(SelectSeq(Events(r), IsDoneEvent))
                  = Len(SelectSeq(CompleteLines(r), IsSentinelLine))
            /\ \A i \in 1..Len(CompleteLines(r)) :
                  CompleteLines(r)[i] = LineContentDone =>
                      \E j \in 1..Len(Events(r)) :
                          EventContent(Events(r)[j]) = <<DoneText>>

\* Lines that carry one fragment each: reasoning, or ordinary content.
IsReasoningLine(line) == line = LineReasoning
IsContentLine(line) ==
    HasDeltaIn(line) /\ DOMAIN DeltaIn(line) = {"content"} /\ truthy(DeltaIn(line), "content")
\* Reasoning fragments followed by ordinary-content fragments, and no other line.
ReasoningThenContent(lines) ==
    /\ \A i \in 1..Len(lines) : IsReasoningLine(lines[i]) \/ IsContentLine(lines[i])
    /\ \A i, j \in 1..Len(lines) :
          (IsContentLine(lines[i]) /\ IsReasoningLine(lines[j])) => j < i
\* The concatenation of one field of the fragments.
RECURSIVE Concatenated(_, _)
Concatenated(lines, f) ==
    IF lines = <<>> THEN <<>>
    ELSE (IF f \in DOMAIN DeltaIn(lines[1]) THEN DeltaIn(lines[1])[f] ELSE <<>>)
         \o Concatenated(Tail(lines), f)
\* The choice of the buffered answer that carries the same fragments.
WholeChoice(lines) ==
    [message |-> [reasoning_content |-> Concatenated(lines, "reasoning_content"),
                  content |-> Concatenated(lines, "content")]]

SentLines(r) == split(toString(DeliveredBytes(r)))

\* C20 -- a line is processed only after its terminating newline has been
\* received: in every state of a stream the buffer holds exactly the text
\* received since the last newline, the events written are those of
\* processing once, in order, every newline-terminated line received so far,
\* and after the end or an error of the source the unterminated text in the
\* buffer has produced no event.
C20_LineBuffering ==
    \A r \in RIDs :
        IsStream(r) =>
            /\ buffer[r] = popLast(SentLines(r))
            /\ Events(r) = processLines(popRest(SentLines(r)), FALSE, SHOW_REASONING).writes
            /\ Len(Events(r)) <= Len(popRest(SentLines(r)))
=============================================================================
